---- MODULE Spec2Model ----
(***************************************************************************)
(* Sink-stream protocol harness of the connector node's python client     *)
(* (java/connector-node/python-client/integration_tests.py).              *)
(*                                                                         *)
(* One run of test_sink_json or test_sink_stream_chunk: the fixture is     *)
(* loaded, the request list is built, the bidirectional stream is opened   *)
(* with an iterator over the list, and the main thread logs each request   *)
(* and pulls one response per request.  The transport (grpc) drains the    *)
(* request iterator on its own thread, and the connector service decides   *)
(* what each pull yields: a response, the end of the stream, or an error.  *)
(***************************************************************************)
EXTENDS Integers, Sequences, FiniteSets

VARIABLES
    func,               \* the test function this run invokes
    input_file,         \* the JSON fixture file, as the JSON value it holds
    input_binary_file,  \* the binary fixture file, as its bytes
    op_overlap,         \* the op_overlap argument of test_sink_json
    sink_input,         \* what load_input / load_binary_input returned
    request_list,       \* the session: the list of SinkStreamRequest
    wire,               \* requests the transport has taken from iter(request_list) and sent
    pc,                 \* position of the main thread
    req_idx,            \* index in request_list of the loop variable req (0 before the loop)
    pulls,              \* calls of next(response_iter) made so far
    consumed,           \* responses next(response_iter) has returned
    raised,             \* the exception the last next(response_iter) raised, "none" if none
    stdout,             \* what the run printed
    exit_code,          \* <<status>> once the process has exited, <<>> while it runs
    json_error,         \* whether json.load raises on the JSON fixture file (malformed text)
    scenario,           \* the scenario being run; "direct" for a bare call of a test function
    todo,               \* the scenarios main has still to run, in its order
    use_json,           \* main's use_json flag
    channels,           \* grpc channels open (inside their with block)
    started,            \* calls of a test function started in this process
    completed,          \* calls of a test function that have returned
    queries,            \* SELECTs validate_jdbc_sink has run on the store
    rows,               \* what cur.fetchall() returned
    expected,           \* the expected rows validate_jdbc_sink derived
    compared,           \* the (row, column) indexes validate_jdbc_sink compared, in order
    pipeline_name,      \* notify.py: <<BUILDKITE_PIPELINE_NAME>>, <<>> when it is unset
    outcome,            \* notify.py: what buildkite-agent prints as the outcome of each step
                        \* that did not pass (for the other steps it prints passed)
    test_map,           \* notify.py: what get_test_map returned
    failed_test_map,    \* notify.py: what get_failed_tests returned
    message,            \* notify.py: what generate_test_status_message returned
    uploads             \* notify.py: the upload commands handed to the shell

\* What the stream driver never touches.
\* The state of the CI failure notifier (ci/scripts/notify.py), a script of its own.
notifier == <<pipeline_name, outcome, test_map, failed_test_map, message, uploads>>

\* What the stream driver never touches.
outer == <<json_error, scenario, todo, use_json, started, completed,
           queries, rows, expected, compared, notifier>>

vars == <<func, input_file, input_binary_file, op_overlap, sink_input,
          request_list, wire, pc, req_idx, pulls, consumed, raised, stdout, exit_code,
          channels, outer>>

(***************************************************************************)
(* Bounds of the model.                                                    *)
(***************************************************************************)
MaxBatches == 2     \* batches in a JSON fixture
MaxRows == 3        \* rows in a JSON fixture, over all its batches
MaxBytes == 2       \* bytes in a binary fixture

(***************************************************************************)
(* Python values.  bool is a subclass of int: False == 0 and True == 1, so *)
(* a value is modelled by its number and whether it is a bool.             *)
(***************************************************************************)
PyFalse == [bool |-> TRUE, v |-> 0]
PyInt(n) == [bool |-> FALSE, v |-> n]
PyNe(a, b) == a.v # b.v
PyStr(x) == [str |-> x]

(***************************************************************************)
(* Fixtures.                                                               *)
(***************************************************************************)
SampleRows == { [op_type |-> 1, line |-> [id |-> 1, name |-> "a"]],
                [op_type |-> 2, line |-> [id |-> 2, name |-> "b"]] }
OverrideValues == {0, 1, 2}
SampleBytes == {10, 13}

SeqsUpTo(S, n) == UNION { [1..k -> S] : k \in 0..n }

RECURSIVE TotalRows(_)
TotalRows(batches) ==
    IF batches = <<>> THEN 0 ELSE Len(Head(batches)) + TotalRows(Tail(batches))

JsonFixtures ==
    { f \in SeqsUpTo(SeqsUpTo(SampleRows, MaxRows), MaxBatches) : TotalRows(f) <= MaxRows }
BinaryFixtures == SeqsUpTo(SampleBytes, MaxBytes)
OpOverlaps == {PyFalse} \cup { PyInt(n) : n \in OverrideValues }

\* Mutant of load_binary_input: the file opened in text mode, where newlines are translated.
RECURSIVE load_text_input(_)
load_text_input(file) ==
    IF file = <<>> THEN <<>>
    ELSE IF Head(file) = 13
         THEN IF Len(file) > 1 /\ file[2] = 10
              THEN <<10>> \o load_text_input(Tail(Tail(file)))
              ELSE <<10>> \o load_text_input(Tail(file))
         ELSE <<Head(file)>> \o load_text_input(Tail(file))

load_input(file) == file
load_binary_input(file) == file

(***************************************************************************)
(* Requests.  payload is the set of payload fields a WriteBatch has set.   *)
(* The sink_config of StartSink (connector type, properties, schema) is    *)
(* passed through from the caller and read nowhere in the harness; it is   *)
(* left out of the message.                                                *)
(***************************************************************************)
StartSink(format) == [kind |-> "start", format |-> format]
StartEpoch(epoch) == [kind |-> "start_epoch", epoch |-> epoch]
SyncBatch(epoch) == [kind |-> "sync", epoch |-> epoch]
RowOp(op_type, line) == [op_type |-> op_type, line |-> line]
WriteJson(row_ops, batch_id, epoch) ==
    [kind |-> "write", payload |-> {"json_payload"}, row_ops |-> row_ops,
     batch_id |-> batch_id, epoch |-> epoch]
WriteStreamChunk(binary_data, batch_id, epoch) ==
    [kind |-> "write", payload |-> {"stream_chunk_payload"}, binary_data |-> binary_data,
     batch_id |-> batch_id, epoch |-> epoch]

JsonRowOp(row, overlap) ==
    RowOp(IF PyNe(overlap, PyFalse) THEN overlap.v ELSE row.op_type, PyStr(row.line))

\* Mutant of JsonRowOps: the rows of a batch are encoded last to first.
JsonRowOpsReversed(batch, overlap) ==
    [i \in 1..Len(batch) |-> JsonRowOp(batch[Len(batch) + 1 - i], overlap)]

JsonRowOps(batch, overlap) == [i \in 1..Len(batch) |-> JsonRowOp(batch[i], overlap)]

\* Mutant of JsonTriples: batch_id is never incremented.
RECURSIVE JsonTriplesSameBatch(_, _, _, _)
JsonTriplesSameBatch(batches, epoch, batch_id, overlap) ==
    IF batches = <<>> THEN <<>>
    ELSE << StartEpoch(epoch),
            WriteJson(JsonRowOps(Head(batches), overlap), batch_id, epoch),
            SyncBatch(epoch) >>
         \o JsonTriplesSameBatch(Tail(batches), epoch + 1, batch_id, overlap)

\* Mutant of JsonTriples: epoch is never incremented.
RECURSIVE JsonTriplesSameEpoch(_, _, _, _)
JsonTriplesSameEpoch(batches, epoch, batch_id, overlap) ==
    IF batches = <<>> THEN <<>>
    ELSE << StartEpoch(epoch),
            WriteJson(JsonRowOps(Head(batches), overlap), batch_id, epoch),
            SyncBatch(epoch) >>
         \o JsonTriplesSameEpoch(Tail(batches), epoch, batch_id + 1, overlap)

RECURSIVE JsonTriples(_, _, _, _)
JsonTriples(batches, epoch, batch_id, overlap) ==
    IF batches = <<>> THEN <<>>
    ELSE << StartEpoch(epoch),
            WriteJson(JsonRowOps(Head(batches), overlap), batch_id, epoch),
            SyncBatch(epoch) >>
         \o JsonTriples(Tail(batches), epoch + 1, batch_id + 1, overlap)

\* Mutant of JsonRequestList: the Start message is appended after the triples.
JsonRequestListStartLast(input, overlap) ==
    JsonTriples(input, 0, 1, overlap) \o <<StartSink("JSON")>>

\* Mutant of JsonRequestList: epoch and batch_id are kept across calls, each
\* session going on where the session before it stopped.
JsonRequestListContinuing(input, overlap) ==
    <<StartSink("JSON")>>
    \o JsonTriples(input, completed * Len(input), completed * Len(input) + 1, overlap)

JsonRequestList(input, overlap) ==
    <<StartSink("JSON")>> \o JsonTriples(input, 0, 1, overlap)

\* Mutant of StreamChunkRequestList: the Start message keeps the JSON format tag.
StreamChunkRequestListJsonTag(input) ==
    << StartSink("JSON"), StartEpoch(0), WriteStreamChunk(input, 1, 0), SyncBatch(0) >>

\* Mutant of StreamChunkRequestList: an empty blob gets no triple.
StreamChunkRequestListSkipEmpty(input) ==
    IF input = <<>> THEN << StartSink("STREAM_CHUNK") >>
    ELSE << StartSink("STREAM_CHUNK"), StartEpoch(0), WriteStreamChunk(input, 1, 0),
            SyncBatch(0) >>

StreamChunkRequestList(input) ==
    << StartSink("STREAM_CHUNK"), StartEpoch(0), WriteStreamChunk(input, 1, 0), SyncBatch(0) >>

(***************************************************************************)
(* The except clause of the response loop: what the run does when          *)
(* next(response_iter) raises err.                                         *)
(***************************************************************************)
PullErrors == {"StopIteration", "RpcError"}
\* Mutant of ExceptHandler: the end of the response stream ends the loop quietly.
ExceptHandlerStopEnds(err) == IF err = "StopIteration" THEN "done" ELSE "exited"
\* Mutant of ExceptHandler: the error is reported and the loop goes on.
ExceptHandlerContinue(err) == "loop"
\* Mutant of ExceptHandler: the error is swallowed and the run waits on.
ExceptHandlerHang(err) == "blocked"
ExceptHandler(err) == "exited"

Request(i) == [tag |-> "REQUEST", idx |-> i]
ResponseOk(i) == [tag |-> "RESPONSE OK", idx |-> i]
TestFailed(err) == [tag |-> "Integration test failed", err |-> err]

(***************************************************************************)
(* Fixture files that json.load accepts but whose rows lack a key: a valid *)
(* fixture with op_type or line removed from one of its rows.              *)
(***************************************************************************)
RowPositions(f) == { p \in (1..Len(f)) \X (1..MaxRows) : p[2] <= Len(f[p[1]]) }
WithoutKey(row, key) ==
    IF key = "op_type" THEN [line |-> row.line] ELSE [op_type |-> row.op_type]
DamagedFixtures ==
    UNION { { [f EXCEPT ![p[1]][p[2]] = WithoutKey(@, key)] :
                p \in RowPositions(f), key \in {"op_type", "line"} } : f \in JsonFixtures }

(***************************************************************************)
(* Uncaught exceptions: the interpreter prints the traceback and the       *)
(* process ends with status 1.  The lookups of line 96 raise KeyError:     *)
(* row['op_type'] is evaluated only when op_overlap != False is false, and *)
(* row['line'] always.                                                     *)
(***************************************************************************)
Traceback(err) == [tag |-> "Traceback", err |-> err]
RowRaises(row, overlap) ==
    \/ ~PyNe(overlap, PyFalse) /\ "op_type" \notin DOMAIN row
    \/ "line" \notin DOMAIN row
BuildRaises(input, overlap) ==
    \E b \in 1..Len(input) : \E r \in 1..Len(input[b]) : RowRaises(input[b][r], overlap)

(***************************************************************************)
(* The op_overlap each caller of test_sink_json passes: every scenario     *)
(* passes 1, test_upsert_iceberg_sink leaves the default; a bare call of   *)
(* the function may pass any value.                                        *)
(***************************************************************************)
ScenarioOverlaps(sc) ==
    IF sc = "direct" THEN OpOverlaps
    ELSE IF sc = "upsert_iceberg_sink" THEN {PyFalse}
    ELSE {PyInt(1)}

(***************************************************************************)
(* Initial states: the fixture file of the function under test.           *)
(***************************************************************************)
InitLocals ==
    /\ op_overlap = PyFalse
    /\ sink_input = <<>>
    /\ request_list = <<>>
    /\ wire = <<>>
    /\ req_idx = 0
    /\ pulls = 0
    /\ consumed = 0
    /\ raised = "none"
    /\ stdout = <<>>
    /\ exit_code = <<>>
    /\ channels = 0
    /\ completed = 0
    /\ queries = 0
    /\ rows = <<>>
    /\ expected = <<>>
    /\ compared = <<>>

\* The notifier is another script: it does not run in a run of the harness.
NotifierIdle ==
    /\ pipeline_name = <<>>
    /\ outcome = <<>>
    /\ test_map = <<>>
    /\ failed_test_map = <<>>
    /\ message = <<>>
    /\ uploads = <<>>

DirectCall ==
    /\ pc = "call"
    /\ scenario = "direct"
    /\ todo = <<>>
    /\ started = 1
    /\ use_json = (func = "test_sink_json")
    /\ NotifierIdle

Init ==
    /\ \/ /\ func = "test_sink_json"
          /\ input_file \in JsonFixtures
          /\ input_binary_file = <<>>
       \/ /\ func = "test_sink_stream_chunk"
          /\ input_file = <<>>
          /\ input_binary_file \in BinaryFixtures
    /\ json_error = FALSE
    /\ DirectCall
    /\ InitLocals

\* A bare call of a test function on any fixture file, sound or not.
InitFixture ==
    /\ \/ /\ func = "test_sink_json"
          /\ input_file \in JsonFixtures \cup DamagedFixtures
          /\ input_binary_file = <<>>
          /\ json_error = FALSE
       \/ /\ func = "test_sink_json"
          /\ input_file = <<>>
          /\ input_binary_file = <<>>
          /\ json_error = TRUE
       \/ /\ func = "test_sink_stream_chunk"
          /\ input_file = <<>>
          /\ input_binary_file \in BinaryFixtures
          /\ json_error = FALSE
    /\ DirectCall
    /\ InitLocals

(***************************************************************************)
(* Actions of the main thread.  next(response_iter) blocks until the       *)
(* service yields something: PullResponse is the service answering the     *)
(* next request it has received (the i-th response answers the i-th        *)
(* request), PullRaise the stream ending or failing, which the service or  *)
(* the transport may do at any time.                                       *)
(***************************************************************************)
\* Mutant of LoadJson: a parse error is swallowed and the run goes on without input.
LoadJsonSwallow ==
    /\ pc = "call"
    /\ func = "test_sink_json"
    /\ \E o \in ScenarioOverlaps(scenario) : op_overlap' = o
    /\ sink_input' = IF json_error THEN <<>> ELSE load_input(input_file)
    /\ pc' = "loaded"
    /\ UNCHANGED <<outer, channels, func, input_file, input_binary_file, request_list, wire,
                   req_idx, pulls, consumed, raised, stdout, exit_code>>

LoadJson ==
    /\ pc = "call"
    /\ func = "test_sink_json"
    /\ \E o \in ScenarioOverlaps(scenario) : op_overlap' = o
    /\ IF json_error
       THEN /\ stdout' = Append(stdout, Traceback("JSONDecodeError"))
            /\ exit_code' = <<1>>
            /\ pc' = "exited"
            /\ UNCHANGED sink_input
       ELSE /\ sink_input' = load_input(input_file)
            /\ pc' = "loaded"
            /\ UNCHANGED <<stdout, exit_code>>
    /\ UNCHANGED <<outer, channels, func, input_file, input_binary_file, request_list, wire,
                   req_idx, pulls, consumed, raised>>

\* The content of a JSON fixture file read in 'rb' mode: the bytes of its text,
\* kept as one opaque item.
RawText(file) == <<[json_text |-> file]>>

\* The file a scenario hands to test_sink_stream_chunk: main passes file_name to
\* test_stream_chunk_data_format, and file_name is the JSON file when use_json.
ChunkFile ==
    IF scenario = "stream_chunk_format_test" /\ use_json
    THEN RawText(input_file)
    ELSE input_binary_file

LoadBinary ==
    /\ pc = "call"
    /\ func = "test_sink_stream_chunk"
    /\ sink_input' = load_binary_input(ChunkFile)
    /\ pc' = "loaded"
    /\ UNCHANGED <<outer, channels, func, input_file, input_binary_file, op_overlap,
                   request_list, wire, req_idx, pulls, consumed, raised, stdout, exit_code>>

\* The channel is opened, then the list is built; a KeyError leaves the with block
\* (closing the channel) and ends the process, the list built so far is lost.
BuildJson ==
    /\ pc = "loaded"
    /\ func = "test_sink_json"
    /\ IF BuildRaises(sink_input, op_overlap)
       THEN /\ stdout' = Append(stdout, Traceback("KeyError"))
            /\ exit_code' = <<1>>
            /\ pc' = "exited"
            /\ UNCHANGED <<request_list, channels>>
       ELSE /\ request_list' = JsonRequestList(sink_input, op_overlap)
            /\ channels' = channels + 1
            /\ pc' = "built"
            /\ UNCHANGED <<stdout, exit_code>>
    /\ UNCHANGED <<outer, func, input_file, input_binary_file, op_overlap, sink_input, wire,
                   req_idx, pulls, consumed, raised>>

BuildStreamChunk ==
    /\ pc = "loaded"
    /\ func = "test_sink_stream_chunk"
    /\ request_list' = StreamChunkRequestList(sink_input)
    /\ channels' = channels + 1
    /\ pc' = "built"
    /\ UNCHANGED <<outer, func, input_file, input_binary_file, op_overlap, sink_input, wire,
                   req_idx, pulls, consumed, raised, stdout, exit_code>>

SinkStream ==
    /\ pc = "built"
    /\ pc' = "loop"
    /\ UNCHANGED <<outer, channels, func, input_file, input_binary_file, op_overlap, sink_input, request_list,
                   wire, req_idx, pulls, consumed, raised, stdout, exit_code>>

LoopNext ==
    /\ pc = "loop"
    /\ IF req_idx < Len(request_list)
       THEN /\ req_idx' = req_idx + 1
            /\ stdout' = Append(stdout, Request(req_idx + 1))
            /\ pulls' = pulls + 1
            /\ pc' = "pull"
       ELSE /\ pc' = "done"
            /\ UNCHANGED <<req_idx, stdout, pulls>>
    /\ UNCHANGED <<outer, channels, func, input_file, input_binary_file, op_overlap, sink_input, request_list,
                   wire, consumed, raised, exit_code>>

\* Mutant of PullResponse: the loop is left after the first response.
PullResponseBreak ==
    /\ pc = "pull"
    /\ consumed < Len(wire)
    /\ consumed' = consumed + 1
    /\ stdout' = Append(stdout, ResponseOk(consumed + 1))
    /\ pc' = "done"
    /\ UNCHANGED <<outer, channels, func, input_file, input_binary_file, op_overlap, sink_input, request_list,
                   wire, req_idx, pulls, raised, exit_code>>

PullResponse ==
    /\ pc = "pull"
    /\ consumed < Len(wire)
    /\ consumed' = consumed + 1
    /\ stdout' = Append(stdout, ResponseOk(consumed + 1))
    /\ pc' = "loop"
    /\ UNCHANGED <<outer, channels, func, input_file, input_binary_file, op_overlap, sink_input, request_list,
                   wire, req_idx, pulls, raised, exit_code>>

PullRaise ==
    /\ pc = "pull"
    /\ \E err \in PullErrors :
        /\ raised' = err
        /\ stdout' = Append(stdout, TestFailed(err))
        /\ pc' = ExceptHandler(err)
        /\ exit_code' = IF ExceptHandler(err) = "exited" THEN <<1>> ELSE exit_code
        \* exit(1) raises SystemExit, which leaves the with block: the channel is closed
        /\ channels' = IF ExceptHandler(err) = "exited" THEN channels - 1 ELSE channels
    /\ UNCHANGED <<outer, func, input_file, input_binary_file, op_overlap, sink_input, request_list,
                   wire, req_idx, pulls, consumed>>

(***************************************************************************)
(* The transport's thread: takes the next request from the iterator and    *)
(* sends it, while the call is open.                                       *)
(***************************************************************************)
\* Mutant of SendNext: the requests are taken from the end of the list.
SendNextFromEnd ==
    /\ pc \in {"loop", "pull"}
    /\ Len(wire) < Len(request_list)
    /\ wire' = Append(wire, request_list[Len(request_list) - Len(wire)])
    /\ UNCHANGED <<outer, channels, func, input_file, input_binary_file, op_overlap, sink_input, request_list,
                   pc, req_idx, pulls, consumed, raised, stdout, exit_code>>

SendNext ==
    /\ pc \in {"loop", "pull"}
    /\ Len(wire) < Len(request_list)
    /\ wire' = Append(wire, request_list[Len(wire) + 1])
    /\ UNCHANGED <<outer, channels, func, input_file, input_binary_file, op_overlap, sink_input, request_list,
                   pc, req_idx, pulls, consumed, raised, stdout, exit_code>>

\* Mutant of Return: test_jdbc_sink validates in a finally block, so also after
\* the session was aborted.
ReturnOrAbort ==
    /\ \/ /\ pc = "done"
          /\ channels' = channels - 1
          /\ pc' = IF scenario = "direct" THEN "returned"
                   ELSE IF scenario = "jdbc_sink" THEN "validate" ELSE "main"
       \/ /\ pc = "exited" /\ scenario = "jdbc_sink" /\ queries = 0
          /\ channels' = channels
          /\ pc' = "validate"
    /\ completed' = completed + 1
    /\ UNCHANGED <<func, input_file, input_binary_file, op_overlap, sink_input, request_list,
                   wire, req_idx, pulls, consumed, raised, stdout, exit_code, json_error,
                   scenario, todo, use_json, started, queries, rows, expected, compared,
                   notifier>>

\* The response loop is over: the with block closes the channel and the session
\* function returns, to its scenario or to whoever called it.
Return ==
    /\ pc = "done"
    /\ channels' = channels - 1
    /\ completed' = completed + 1
    /\ pc' = IF scenario = "direct" THEN "returned"
             ELSE IF scenario = "jdbc_sink" THEN "validate" ELSE "main"
    /\ UNCHANGED <<func, input_file, input_binary_file, op_overlap, sink_input, request_list,
                   wire, req_idx, pulls, consumed, raised, stdout, exit_code, json_error,
                   scenario, todo, use_json, started, queries, rows, expected, compared,
                   notifier>>

Next ==
    \/ LoadJson
    \/ LoadBinary
    \/ BuildJson
    \/ BuildStreamChunk
    \/ SinkStream
    \/ LoopNext
    \/ PullResponse
    \/ PullRaise
    \/ SendNext
    \/ Return

Spec == Init /\ [][Next]_vars

SpecFixture == InitFixture /\ [][Next]_vars

(***************************************************************************)
(* The run under fair scheduling: the main thread takes its next step, and *)
(* the service answers a pending next(response_iter) with a response, the  *)
(* end of the stream or an error.                                          *)
(***************************************************************************)
MainThreadStep ==
    LoadJson \/ LoadBinary \/ BuildJson \/ BuildStreamChunk \/ SinkStream \/ LoopNext \/ Return
ServiceAnswer == PullResponse \/ PullRaise

FairSpec == Spec /\ WF_vars(MainThreadStep) /\ WF_vars(ServiceAnswer)

(***************************************************************************)
(* validate_jdbc_sink: the rows the fixture should have produced, and the  *)
(* comparison with what the store returned.  Indexes in reports and in    *)
(* the log of compared cells are Python's (zero-based).                    *)
(***************************************************************************)
MaxStoreRows == 2   \* rows the store returns to SELECT * FROM test
MaxScenarios == 2   \* scenario flags on one command line

\* list(row.values()) of a row whose keys are op_type, line in file order
RowValues(row) == <<row.op_type, row.line>>

RECURSIVE FlattenValues(_)
FlattenValues(batches) ==
    IF batches = <<>> THEN <<>>
    ELSE [i \in 1..Len(Head(batches)) |-> RowValues(Head(batches)[i])]
         \o FlattenValues(Tail(batches))

\* item[1] is the second value of the row, its line
convert(b) == [i \in 1..Len(b) |-> <<b[i][2].id, b[i][2].name>>]

\* Mutant of ExpectedRows: the rows are derived from what the session loaded.
ExpectedRowsFromSinkInput(file) ==
    IF func = "test_sink_json" THEN convert(FlattenValues(sink_input)) ELSE <<>>

ExpectedRows(file) == convert(FlattenValues(load_input(file)))

RowCountReport(e, g) ==
    [tag |-> "Integration test failed: expected rows", expected |-> e, got |-> g]
ColumnCountReport(e, g) ==
    [tag |-> "Integration test failed: expected columns", expected |-> e, got |-> g]
ValueReport(e, i, j, g) ==
    [tag |-> "Integration test failed: expected at row, column",
     expected |-> e, row |-> i, column |-> j, got |-> g]

\* Mutant of ColumnWalk: only the first column of a row is compared.
RECURSIVE ColumnWalkFirstOnly(_, _, _, _, _)
ColumnWalkFirstOnly(row, exp, i, j, log) ==
    IF j > Len(row) \/ j > 1 THEN [ok |-> TRUE, log |-> log]
    ELSE IF row[j] # exp[j]
         THEN [ok |-> FALSE, log |-> Append(log, <<i - 1, j - 1>>),
               report |-> ValueReport(exp[j], i - 1, j - 1, row[j])]
         ELSE ColumnWalkFirstOnly(row, exp, i, j + 1, Append(log, <<i - 1, j - 1>>))

\* Mutant of ColumnWalk: the walk of a row goes on after a mismatch and the last
\* mismatch of the row is the one reported.
RECURSIVE ColumnWalkLast(_, _, _, _, _)
ColumnWalkLast(row, exp, i, j, log) ==
    IF j > Len(row) THEN [ok |-> TRUE, log |-> log]
    ELSE LET rest == ColumnWalkLast(row, exp, i, j + 1, Append(log, <<i - 1, j - 1>>))
         IN  IF row[j] # exp[j] /\ rest.ok
             THEN [ok |-> FALSE, log |-> rest.log,
                   report |-> ValueReport(exp[j], i - 1, j - 1, row[j])]
             ELSE rest

\* for j in range(len(rows[i])), from column j of row i on
RECURSIVE ColumnWalk(_, _, _, _, _)
ColumnWalk(row, exp, i, j, log) ==
    IF j > Len(row) THEN [ok |-> TRUE, log |-> log]
    ELSE IF row[j] # exp[j]
         THEN [ok |-> FALSE, log |-> Append(log, <<i - 1, j - 1>>),
               report |-> ValueReport(exp[j], i - 1, j - 1, row[j])]
         ELSE ColumnWalk(row, exp, i, j + 1, Append(log, <<i - 1, j - 1>>))

\* for i in range(len(rows)), from row i on
RECURSIVE RowWalk(_, _, _, _)
RowWalk(store, exp, i, log) ==
    IF i > Len(store) THEN [ok |-> TRUE, log |-> log]
    ELSE IF Len(store[i]) # Len(exp[i])
         THEN [ok |-> FALSE, log |-> log,
               report |-> ColumnCountReport(Len(exp[i]), Len(store[i]))]
         ELSE LET c == ColumnWalk(store[i], exp[i], i, 1, log)
              IN  IF c.ok THEN RowWalk(store, exp, i + 1, c.log) ELSE c

\* Mutant of ValidateRows: a store holding extra rows is accepted and only its
\* first len(expected) rows are compared.
ValidateRowsAtLeast(store, exp) ==
    IF Len(store) < Len(exp)
    THEN [ok |-> FALSE, log |-> <<>>, report |-> RowCountReport(Len(exp), Len(store))]
    ELSE RowWalk(SubSeq(store, 1, Len(exp)), exp, 1, <<>>)

ValidateRows(store, exp) ==
    IF Len(store) # Len(exp)
    THEN [ok |-> FALSE, log |-> <<>>, report |-> RowCountReport(Len(exp), Len(store))]
    ELSE RowWalk(store, exp, 1, <<>>)

\* What cur.fetchall() may return: tuples of an int and a string column, or of
\* the int column alone.
StoreTuples == { <<1, "a">>, <<2, "b">>, <<1, "b">>, <<1>> }
StoreContents == SeqsUpTo(StoreTuples, MaxStoreRows)

(***************************************************************************)
(* __main__: the scenarios selected on the command line run one after the  *)
(* other, in the order of the if statements; each test_*_sink call runs    *)
(* one session of its own, and test_jdbc_sink then validates the store.    *)
(***************************************************************************)
MainOrder ==
    << "stream_chunk_format_test", "file_sink", "jdbc_sink", "iceberg_sink",
       "deltalake_sink", "es_sink", "upsert_iceberg_sink" >>

Flags == { MainOrder[i] : i \in 1..Len(MainOrder) }

\* The scenarios a set of flags selects, in main's order
Selected(F) == SelectSeq(MainOrder, LAMBDA sc : sc \in F)

ArgSets == { F \in SUBSET Flags : Cardinality(F) <= MaxScenarios }

\* The session function a scenario calls
ScenarioFunc(sc, uj) ==
    IF sc # "stream_chunk_format_test" /\ uj
    THEN "test_sink_json"
    ELSE "test_sink_stream_chunk"

\* Fixtures of at most one row, for runs of several scenarios
SmallJsonFixtures == { f \in JsonFixtures : TotalRows(f) <= 1 }
SmallBinaryFixtures == { b \in BinaryFixtures : Len(b) <= 1 }

MainStart ==
    /\ pc = "main"
    /\ func = "none"
    /\ scenario = "none"
    /\ started = 0
    /\ json_error = FALSE
    /\ use_json \in BOOLEAN
    /\ InitLocals
    /\ NotifierIdle

\* python integration_tests.py with any flags and either data format
InitMain ==
    /\ \E F \in ArgSets : todo = Selected(F)
    /\ input_file \in SmallJsonFixtures
    /\ input_binary_file \in SmallBinaryFixtures
    /\ MainStart

\* python integration_tests.py --jdbc_sink, on any fixture; the binary fixture
\* is read only when the data format is not JSON
InitJdbc ==
    /\ todo = <<"jdbc_sink">>
    /\ input_file \in JsonFixtures
    /\ input_binary_file \in BinaryFixtures
    /\ MainStart
    /\ use_json => input_binary_file = <<>>

\* The next selected scenario calls its test function, whose locals are new.
StartScenario ==
    /\ pc = "main"
    /\ todo # <<>>
    /\ scenario' = Head(todo)
    /\ todo' = Tail(todo)
    /\ func' = ScenarioFunc(Head(todo), use_json)
    /\ started' = started + 1
    /\ op_overlap' = PyFalse
    /\ sink_input' = <<>>
    /\ request_list' = <<>>
    /\ wire' = <<>>
    /\ req_idx' = 0
    /\ pulls' = 0
    /\ consumed' = 0
    /\ pc' = "call"
    /\ UNCHANGED <<input_file, input_binary_file, raised, stdout, exit_code, channels,
                   json_error, use_json, completed, queries, rows, expected, compared, notifier>>

\* validate_jdbc_sink(input_file), on whatever the store holds when it is read
ValidateJdbcSink ==
    /\ pc = "validate"
    /\ \E store \in StoreContents :
         LET exp == ExpectedRows(input_file)
             res == ValidateRows(store, exp)
         IN  /\ queries' = queries + 1
             /\ rows' = store
             /\ expected' = exp
             /\ compared' = res.log
             /\ IF res.ok
                THEN /\ pc' = "main"
                     /\ UNCHANGED <<stdout, exit_code>>
                ELSE /\ stdout' = Append(stdout, res.report)
                     /\ exit_code' = <<1>>
                     /\ pc' = "exited"
    /\ UNCHANGED <<func, input_file, input_binary_file, op_overlap, sink_input, request_list,
                   wire, req_idx, pulls, consumed, raised, channels, json_error, scenario,
                   todo, use_json, started, completed, notifier>>

\* No scenario is left: the script ends with status 0.
MainEnd ==
    /\ pc = "main"
    /\ todo = <<>>
    /\ pc' = "end"
    /\ exit_code' = <<0>>
    /\ UNCHANGED <<func, input_file, input_binary_file, op_overlap, sink_input, request_list,
                   wire, req_idx, pulls, consumed, raised, stdout, channels, outer>>

NextMain ==
    \/ Next
    \/ StartScenario
    \/ ValidateJdbcSink
    \/ MainEnd

SpecMain == InitMain /\ [][NextMain]_vars

SpecJdbc == InitJdbc /\ [][NextMain]_vars

(***************************************************************************)
(* The CI failure notifier, ci/scripts/notify.py.  A string is the         *)
(* sequence of its pieces, "" the empty sequence; a dict is the sequence   *)
(* of its entries in insertion order, which is the order of iteration.     *)
(***************************************************************************)
MaxNotPassed == 2   \* steps whose outcome is anything but passed

T(test, owners) == [test |-> test, owners |-> owners]

MAIN_CRON_TEST_MAP ==
    << T("test-notify", <<"noelkwan", "noelkwan">>),
       T("test-notify-2", <<"noelkwan", "noelkwan">>),
       T("backfill-tests", <<"noelkwan">>),
       T("backwards-compat-tests", <<"noelkwan">>),
       T("fuzz-test", <<"noelkwan">>),
       T("e2e-test-release", <<"zhi">>),
       T("e2e-iceberg-sink-tests", <<"renjie">>),
       T("e2e-java-binding-tests", <<"yiming">>),
       T("e2e-clickhouse-sink-tests", <<"bohan">>),
       T("e2e-pulsar-sink-tests", <<"renjie">>),
       T("s3-source-test-for-opendal-fs-engine", <<"congyi">>),
       T("pulsar-source-tests", <<"renjie">>),
       T("connector-node-integration-test", <<"siyuan">>) >>

INTEGRATION_TEST_MAP ==
    << T("test-notify", <<"jianwei">>),
       T("ad-click-json", <<"bohan">>),
       T("ad-ctr-json", <<"bohan">>),
       T("cdn-metrics-json", <<"bohan">>),
       T("clickstream-json", <<"bohan">>),
       T("livestream-json", <<"bohan">>),
       T("livestream-protobuf", <<"bohan">>),
       T("prometheus-json", <<"bohan">>),
       T("schema-registry-json", <<"bohan">>),
       T("mysql-cdc-json", <<"siyuan">>),
       T("postgres-cdc-json", <<"siyuan">>),
       T("mysql-sink-json", <<"siyuan">>),
       T("postgres-sink-json", <<"siyuan">>),
       T("iceberg-cdc-json", <<"renjie">>),
       T("twitter-json", <<"bohan">>),
       T("twitter-protobuf", <<"bohan">>),
       T("twitter-pulsar-json", <<"bohan">>),
       T("debezium-mysql-json", <<"bohan">>),
       T("debezium-postgres-json", <<"bohan">>),
       T("debezium-sqlserver-json", <<"bohan">>),
       T("tidb-cdc-sink-json", <<"eric">>),
       T("citus-cdc-json", <<"siyuan">>),
       T("kinesis-s3-source-json", <<"bohan">>),
       T("clickhouse-sink-json", <<"xinhao">>),
       T("cockroach-sink-json", <<"bohan">>),
       T("kafka-cdc-sink-json", <<"renjie">>),
       T("cassandra-and-scylladb-sink-json", <<"xinhao">>),
       T("elasticsearch-sink-json", <<"xinhao">>),
       T("redis-sink-json", <<"xinhao">>),
       T("big-query-sink-json", <<"xinhao">>),
       T("vector-json", <<"tao">>),
       T("doris-sink", <<"xinhao">>),
       T("starrocks-sink", <<"xinhao">>),
       T("deltalake-sink", <<"xinhao">>) >>

\* test_map.keys()
Keys(tm) == { tm[i].test : i \in 1..Len(tm) }

EmptyStr == <<>>
Str(piece) == <<piece>>

\* mock_test_map of get_mock_test_status; a test that is not a key raises KeyError
mock_test_map ==
    [t \in Keys(MAIN_CRON_TEST_MAP) |->
        IF t \in {"test-notify", "test-notify-2", "e2e-clickhouse-sink-tests"}
        THEN Str("hard_failed")
        ELSE IF t = "e2e-java-binding-tests" THEN Str("soft_failed")
        ELSE IF t = "e2e-iceberg-sink-tests" THEN Str("passed")
        ELSE EmptyStr]

\* str.strip(): leading and trailing whitespace is removed
\* The characters str.strip() removes; those TLA+ has no escape for are named
\* by their Python escape.
Whitespace ==
    { " ", "\t", "\n", "\r", "\f", "\\x0b", "\\x1c", "\\x1d", "\\x1e", "\\x1f", "\\x85",
      "\\xa0", "\\u1680", "\\u2000", "\\u2001", "\\u2002", "\\u2003", "\\u2004",
      "\\u2005", "\\u2006", "\\u2007", "\\u2008", "\\u2009", "\\u200a", "\\u2028",
      "\\u2029", "\\u202f", "\\u205f", "\\u3000" }

RECURSIVE lstrip(_)
lstrip(text) ==
    IF text # <<>> /\ Head(text) \in Whitespace THEN lstrip(Tail(text)) ELSE text

RECURSIVE rstrip(_)
rstrip(text) ==
    IF text # <<>> /\ text[Len(text)] \in Whitespace
    THEN rstrip(SubSeq(text, 1, Len(text) - 1))
    ELSE text

strip(text) == rstrip(lstrip(text))

\* What buildkite-agent step get "outcome" --step test prints
PassedOutput == <<"passed", "\n">>
AgentPrints(test) == IF test \in DOMAIN outcome THEN outcome[test] ELSE PassedOutput

\* text = True: the captured bytes are decoded with universal newlines, "\r\n"
\* and "\r" become "\n"
RECURSIVE universal_newlines(_)
universal_newlines(text) ==
    IF text = <<>> THEN <<>>
    ELSE IF Head(text) = "\r"
         THEN <<"\n">> \o universal_newlines(IF Len(text) >= 2 /\ text[2] = "\n"
                                              THEN SubSeq(text, 3, Len(text))
                                              ELSE Tail(text))
         ELSE <<Head(text)>> \o universal_newlines(Tail(text))

\* result.stdout
AgentOutput(test) == universal_newlines(AgentPrints(test))

\* get_buildkite_test_status as a function of the test, given what the agent prints
get_buildkite_test_status == [t \in Keys(test_map) |-> strip(AgentOutput(t))]

\* Mutant of get_failed_tests: only a hard failure counts.
get_failed_tests_hard_only(get_test_status, tm) ==
    SelectSeq(tm, LAMBDA e : get_test_status[e.test] = Str("hard_failed"))

\* failed_test_map: the entries of test_map whose status is a failure, in the
\* order of test_map
get_failed_tests(get_test_status, tm) ==
    SelectSeq(tm, LAMBDA e : \/ get_test_status[e.test] = Str("hard_failed")
                             \/ get_test_status[e.test] = Str("soft_failed"))

\* sep.join(parts)
RECURSIVE join(_, _)
join(sep, parts) ==
    IF parts = <<>> THEN EmptyStr
    ELSE IF Len(parts) = 1 THEN parts[1]
    ELSE parts[1] \o sep \o join(sep, Tail(parts))

\* f"<@{user}>"
Mention(user) == <<"<@", user, ">">>

\* f"Test {test} failed {users}"
TestFailedLine(e) ==
    <<"Test ", e.test, " failed ">>
    \o join(Str(" "), [k \in 1..Len(e.owners) |-> Mention(e.owners[k])])

generate_test_status_message(failed) ==
    join(<<"\n", "            ">>, [k \in 1..Len(failed) |-> TestFailedLine(failed[k])])

\* The shell command that uploads the notification step
format_cmd(messages) ==
    [run |-> "buildkite-agent pipeline upload",
     channel |-> "#notification-buildkite",
     message |-> messages]

\* What the agent prints for a step that did not pass
NotPassedOutputs ==
    { <<"hard_failed", "\r", "\n">>, <<"soft_failed">>, <<"\n">>, <<"unknown", "\n">> }

RECURSIVE SubsetsUpTo(_, _)
SubsetsUpTo(S, n) ==
    IF n = 0 THEN {{}}
    ELSE LET P == SubsetsUpTo(S, n - 1)
         IN  P \cup { p \cup {x} : p \in P, x \in S }

\* The outcomes of the steps of a pipeline: passed, but for a few of them
Outcomes(tests) ==
    UNION { [S -> NotPassedOutputs] : S \in SubsetsUpTo(tests, MaxNotPassed) }

PipelineNames == { <<>>, <<"main-cron">>, <<"integration-tests">>, <<"nightly">> }

PipelineMap(name) ==
    IF name = <<"main-cron">> THEN MAIN_CRON_TEST_MAP ELSE INTEGRATION_TEST_MAP

\* The variables of the harness, which the notifier does not have
harness == <<input_file, input_binary_file, op_overlap, sink_input, request_list, wire,
             req_idx, pulls, consumed, raised, channels, json_error, scenario, todo,
             use_json, started, completed, queries, rows, expected, compared>>

\* The script runs main(); run_test_1() is its dry run on the mock statuses,
\* which never asks the agent.
InitNotify ==
    /\ func \in {"main", "run_test_1"}
    /\ pipeline_name \in PipelineNames
    /\ outcome \in IF func = "main" /\ pipeline_name \in {<<"main-cron">>, <<"integration-tests">>}
                   THEN Outcomes(Keys(PipelineMap(pipeline_name)))
                   ELSE {<<>>}
    /\ test_map = <<>>
    /\ failed_test_map = <<>>
    /\ message = <<>>
    /\ uploads = <<>>
    /\ pc = "notify"
    /\ input_file = <<>>
    /\ input_binary_file = <<>>
    /\ json_error = FALSE
    /\ scenario = "none"
    /\ todo = <<>>
    /\ use_json = FALSE
    /\ started = 0
    /\ InitLocals

get_test_map ==
    /\ pc = "notify"
    /\ IF pipeline_name = <<>>
       THEN /\ stdout' = Append(stdout, Traceback("KeyError"))
            /\ exit_code' = <<1>>
            /\ pc' = "exited"
            /\ UNCHANGED test_map
       ELSE IF pipeline_name \in {<<"main-cron">>, <<"integration-tests">>}
       THEN /\ test_map' = PipelineMap(pipeline_name)
            /\ pc' = "mapped"
            /\ UNCHANGED <<stdout, exit_code>>
       ELSE /\ stdout' = Append(stdout, [tag |-> "Invaild pipeline name!"])
            /\ exit_code' = <<1>>
            /\ pc' = "exited"
            /\ UNCHANGED test_map
    /\ UNCHANGED <<harness, func, pipeline_name, outcome, failed_test_map, message, uploads>>

\* get_failed_tests(get_buildkite_test_status, test_map) in main,
\* get_failed_tests(get_mock_test_status, test_map) in run_test_1
GetFailedTests ==
    /\ pc = "mapped"
    /\ \E get_test_status \in
            { IF func = "main" THEN get_buildkite_test_status ELSE mock_test_map } :
           IF Keys(test_map) \subseteq DOMAIN get_test_status
           THEN /\ failed_test_map' = get_failed_tests(get_test_status, test_map)
                /\ pc' = "polled"
                /\ UNCHANGED <<stdout, exit_code>>
           ELSE /\ stdout' = Append(stdout, Traceback("KeyError"))
                /\ exit_code' = <<1>>
                /\ pc' = "exited"
                /\ UNCHANGED failed_test_map
    /\ UNCHANGED <<harness, func, pipeline_name, outcome, test_map, message, uploads>>

\* message = generate_test_status_message(failed_test_map); if message == "":
\* nothing is sent
NoNeedToNotify ==
    /\ pc = "polled"
    /\ message' = generate_test_status_message(failed_test_map)
    /\ message' = EmptyStr
    /\ stdout' = Append(stdout, [tag |-> "All tests passed, no need to notify"])
    /\ exit_code' = <<0>>
    /\ pc' = "end"
    /\ UNCHANGED <<harness, func, pipeline_name, outcome, test_map, failed_test_map, uploads>>

\* else: the message and the command are printed; main hands the command to
\* the shell, run_test_1 does not
NotifyUsers ==
    /\ pc = "polled"
    /\ message' = generate_test_status_message(failed_test_map)
    /\ message' # EmptyStr
    /\ LET cmd == format_cmd(message')
           printed == stdout \o << [tag |-> "Some tests failed, notify users"],
                                   [tag |-> "message", text |-> message'],
                                   [tag |-> "cmd", cmd |-> cmd] >>
       IN  IF func = "main"
           THEN /\ uploads' = Append(uploads, cmd)
                /\ stdout' = Append(printed, [tag |-> "notification sent"])
           ELSE /\ stdout' = printed
                /\ UNCHANGED uploads
    /\ exit_code' = <<0>>
    /\ pc' = "end"
    /\ UNCHANGED <<harness, func, pipeline_name, outcome, test_map, failed_test_map>>

NextNotify ==
    \/ get_test_map
    \/ GetFailedTests
    \/ NoNeedToNotify
    \/ NotifyUsers

SpecNotify == InitNotify /\ [][NextNotify]_vars

TypeOK ==
    /\ func \in {"test_sink_json", "test_sink_stream_chunk"}
    /\ pc \in {"call", "loaded", "built", "loop", "pull", "done", "returned", "exited"}
    /\ exit_code \in {<<>>, <<1>>}
    /\ raised \in {"none"} \cup PullErrors
    /\ consumed <= pulls
    /\ pulls = req_idx

(***************************************************************************)
(* Vocabulary of the claims.                                               *)
(***************************************************************************)
IsJson == func = "test_sink_json"
IsStreamChunk == func = "test_sink_stream_chunk"
Built == pc \notin {"call", "loaded"}
WritePositions == { i \in 1..Len(request_list) : request_list[i].kind = "write" }
OverrideSupplied == ~op_overlap.bool

\* C1: the session of test_sink_json over a fixture of n batches is the Start
\* message followed by exactly n consecutive triples StartEpoch(i), Write(batch_id
\* i+1, epoch i), Sync(i) for i = 0..n-1; the StartEpoch of epoch i+1 comes after
\* the Sync of epoch i, and batch_id strictly increases from 1.
C1_JsonSessionTriples ==
    (IsJson /\ Built) =>
        LET n == Len(input_file)
            rl == request_list
        IN  /\ Len(rl) = 3 * n + 1
            /\ \A i \in 0..(n - 1) :
                /\ rl[3 * i + 2].kind = "start_epoch" /\ rl[3 * i + 2].epoch = i
                /\ rl[3 * i + 3].kind = "write" /\ rl[3 * i + 3].epoch = i
                /\ rl[3 * i + 3].batch_id = i + 1
                /\ rl[3 * i + 4].kind = "sync" /\ rl[3 * i + 4].epoch = i
            /\ \A j, k \in 1..Len(rl) :
                (rl[j].kind = "start_epoch" /\ rl[k].kind = "sync"
                    /\ rl[j].epoch = rl[k].epoch + 1) => k < j
            /\ \A j, k \in WritePositions : j < k => rl[j].batch_id < rl[k].batch_id
            /\ \A j \in WritePositions : rl[j].batch_id >= 1
            /\ (n > 0) => \E j \in WritePositions : rl[j].batch_id = 1

\* C1 witness: a session built from a fixture of two batches.
C1_Witness == IsJson /\ Built /\ Len(input_file) = 2 /\ Len(request_list) = 7

\* C2: every session has exactly one Start message, and it is the first message,
\* also for an empty JSON fixture.
C2_OneStartFirst ==
    Built =>
        /\ Len(request_list) >= 1
        /\ request_list[1].kind = "start"
        /\ \A i \in 2..Len(request_list) : request_list[i].kind # "start"

\* C2 witness: the session built from the empty JSON fixture.
C2_Witness == IsJson /\ Built /\ input_file = <<>> /\ Len(request_list) = 1

\* C3: with an op override supplied, every RowOp of every Write has op_type equal
\* to the override value, whatever the row's own op_type and whatever the override.
C3_OverrideForcesOpType ==
    (IsJson /\ Built /\ OverrideSupplied) =>
        \A i \in WritePositions :
            \A r \in 1..Len(request_list[i].row_ops) :
                request_list[i].row_ops[r].op_type = op_overlap.v

\* C4 as stated: no response is consumed before every request has been sent.
C4_AllSentBeforeAnyResponse ==
    (consumed > 0) => wire = request_list

\* C4 as amended: the complete request list is built and handed to the stream call
\* before any response is pulled, and the transport sends its requests in session
\* order (what has been sent is always a prefix of the session).
C4_BuiltBeforePullSentInOrder ==
    /\ Len(wire) <= Len(request_list)
    /\ \A i \in 1..Len(wire) : wire[i] = request_list[i]
    /\ (pulls > 0 \/ wire # <<>>) =>
        /\ Built
        /\ Len(request_list) = IF IsJson THEN 3 * Len(input_file) + 1 ELSE 4

\* C4 witness: a response has been consumed while part of the session is unsent.
C4_Witness ==
    /\ consumed > 0
    /\ wire # <<>>
    /\ Len(wire) < Len(request_list)

\* C5: when the response stream ends after fewer responses than the session has
\* requests, the run reports failure and the process exits with status 1; the run
\* never returns normally.
C5_ShortStreamFails ==
    /\ (raised = "StopIteration") =>
        /\ consumed < Len(request_list)
        /\ pc = "exited"
        /\ exit_code = <<1>>
        /\ stdout[Len(stdout)] = TestFailed("StopIteration")
    /\ (pc = "done") => (raised = "none" /\ consumed = Len(request_list))

\* C5 witness: the stream ended after two responses of a longer session.
C5_Witness ==
    /\ raised = "StopIteration"
    /\ consumed = 2
    /\ Len(request_list) > 2

\* C6: when the k-th pull raises an error, the process exits with status 1 with
\* exactly k-1 responses consumed, and nothing is pulled or logged afterwards: the
\* failure report is the last thing printed, after k logged requests.
C6_ErrorAbortsAtOnce ==
    (raised # "none") =>
        /\ pc = "exited"
        /\ exit_code = <<1>>
        /\ consumed = pulls - 1
        /\ Cardinality({ i \in 1..Len(stdout) : stdout[i].tag = "REQUEST" }) = pulls
        /\ Cardinality({ i \in 1..Len(stdout) : stdout[i].tag = "RESPONSE OK" }) = pulls - 1
        /\ Len(stdout) = 2 * pulls
        /\ stdout[Len(stdout)] = TestFailed(raised)

\* C6 witness: the third pull raised a transport error.
C6_Witness ==
    /\ raised = "RpcError"
    /\ pulls = 3
    /\ pc = "exited"

\* C7: a run that returns normally has consumed exactly one response per request
\* (3n+1 for a JSON fixture of n batches, 4 for a binary fixture), the i-th
\* response logged right after the i-th request, and no pull is ever made beyond
\* the number of requests.
C7_OneResponsePerRequest ==
    /\ pulls <= Len(request_list)
    /\ consumed <= pulls
    /\ (pc = "done") =>
        /\ consumed = Len(request_list)
        /\ pulls = Len(request_list)
        /\ Len(request_list) = IF IsJson THEN 3 * Len(input_file) + 1 ELSE 4
        /\ Len(stdout) = 2 * Len(request_list)
        /\ \A i \in 1..Len(request_list) :
            /\ stdout[2 * i - 1] = Request(i)
            /\ stdout[2 * i] = ResponseOk(i)
        /\ exit_code = <<>>

\* C7 witness: a JSON run over two batches returned after seven responses.
C7_Witness ==
    /\ pc = "done"
    /\ IsJson
    /\ consumed = 7

\* C8: the format tag of the Start message matches the payload of every Write:
\* JSON with json_payload only, STREAM_CHUNK with stream_chunk_payload only.
C8_FormatMatchesPayload ==
    Built =>
        /\ request_list[1].format \in {"JSON", "STREAM_CHUNK"}
        /\ \A i \in WritePositions :
            /\ Cardinality(request_list[i].payload) = 1
            /\ (request_list[1].format = "JSON") =>
                    request_list[i].payload = {"json_payload"}
            /\ (request_list[1].format = "STREAM_CHUNK") =>
                    request_list[i].payload = {"stream_chunk_payload"}

\* C8 witness: a STREAM_CHUNK session with its Write.
C8_Witness ==
    /\ Built
    /\ request_list[1].format = "STREAM_CHUNK"
    /\ WritePositions # {}

\* C9: the session of test_sink_stream_chunk has, after Start, exactly one
\* StartEpoch/Write/Sync triple with epoch 0 and batch_id 1, whatever the size of
\* the binary fixture.
C9_BinaryOneTriple ==
    (IsStreamChunk /\ Built) =>
        /\ Len(request_list) = 4
        /\ request_list[2].kind = "start_epoch" /\ request_list[2].epoch = 0
        /\ request_list[3].kind = "write" /\ request_list[3].epoch = 0
        /\ request_list[3].batch_id = 1
        /\ request_list[4].kind = "sync" /\ request_list[4].epoch = 0

\* C9 witness: the session built from the empty binary fixture.
C9_Witness == IsStreamChunk /\ Built /\ input_binary_file = <<>>

\* C10: the single Write of a binary session carries the bytes of the binary
\* fixture unchanged: same length, same bytes, same order.
C10_BinaryPayloadVerbatim ==
    (IsStreamChunk /\ Built) =>
        /\ Cardinality(WritePositions) = 1
        /\ \A i \in WritePositions :
            /\ Len(request_list[i].binary_data) = Len(input_binary_file)
            /\ \A b \in 1..Len(input_binary_file) :
                request_list[i].binary_data[b] = input_binary_file[b]

\* C10 witness: the session built from the two bytes CR LF.
C10_Witness == IsStreamChunk /\ Built /\ input_binary_file = <<13, 10>>

\* C14: the Write of the i-th triple of a JSON session has one RowOp per row of
\* the i-th batch, in the batch's order (none for an empty batch); each RowOp's
\* line is the string form of the row's line, and without an override its op_type
\* is the row's own.
C14_RowOpsFollowBatch ==
    (IsJson /\ Built) =>
        /\ Cardinality(WritePositions) = Len(input_file)
        /\ \A i \in 1..Len(input_file) :
            LET w == request_list[3 * i]
                batch == input_file[i]
            IN  /\ w.kind = "write"
                /\ Len(w.row_ops) = Len(batch)
                /\ \A r \in 1..Len(batch) :
                    /\ w.row_ops[r].line = [str |-> batch[r].line]
                    /\ (op_overlap = PyFalse) => w.row_ops[r].op_type = batch[r].op_type

\* C14 witness: no override, a batch of two different rows and an empty batch.
C14_Witness ==
    /\ IsJson /\ Built
    /\ op_overlap = PyFalse
    /\ Len(input_file) = 2
    /\ Len(input_file[1]) = 2
    /\ input_file[1][1] # input_file[1][2]
    /\ input_file[2] = <<>>

\* C19: under fair scheduling, where the service answers every pending pull with
\* a response, the end of the stream or an error, every run terminates: it returns
\* after all responses or exits with status 1; and a pending pull ends only by one
\* of those answers, the harness never abandons it.
C19_RunTerminates ==
    /\ <>(pc \in {"done", "exited"})
    /\ [][(pc = "pull") =>
            \/ pc' = "pull"
            \/ (pc' = "loop" /\ consumed' = consumed + 1)
            \/ (pc' = "exited" /\ raised' \in PullErrors /\ exit_code' = <<1>>)]_vars

\* C19 witness: a binary run that returned after its four responses.
C19_Witness ==
    /\ pc = "done"
    /\ IsStreamChunk
    /\ consumed = 4
    /\ wire = request_list

\* C20: every Write stands right between a StartEpoch and a Sync of its own epoch,
\* its batch_id is that epoch plus 1, and no two StartEpoch, no two Write and no
\* two Sync of a session carry the same epoch.
C20_WriteInsideItsEpoch ==
    Built =>
        /\ \A i \in WritePositions :
            /\ 1 < i /\ i < Len(request_list)
            /\ request_list[i - 1].kind = "start_epoch"
            /\ request_list[i - 1].epoch = request_list[i].epoch
            /\ request_list[i + 1].kind = "sync"
            /\ request_list[i + 1].epoch = request_list[i].epoch
            /\ request_list[i].batch_id = request_list[i].epoch + 1
        /\ \A j, k \in 2..Len(request_list) :
            (j # k /\ request_list[j].kind = request_list[k].kind) =>
                request_list[j].epoch # request_list[k].epoch

\* C20 witness: a session of two triples, just built.
C20_Witness ==
    /\ pc = "built"
    /\ Cardinality(WritePositions) = 2

(***************************************************************************)
(* Vocabulary of the claims about unsound fixtures.                        *)
(***************************************************************************)
AllRows(f) == { f[p[1]][p[2]] : p \in RowPositions(f) }
LacksKey(f, key) == \E row \in AllRows(f) : key \notin DOMAIN row
FixtureUnsound == json_error \/ LacksKey(input_file, "op_type") \/ LacksKey(input_file, "line")
BuildFailed ==
    /\ pc = "exited"
    /\ exit_code = <<1>>
    /\ request_list = <<>>
NothingSent == wire = <<>> /\ pulls = 0 /\ channels = 0

\* C13 as stated: with a fixture that cannot be parsed or has a row without
\* op_type or without line, the run never gets past building: it ends with a
\* non-zero status and no request is sent, with or without an override.
C13_UnsoundFixtureIsFatal ==
    (IsJson /\ FixtureUnsound) =>
        /\ NothingSent
        /\ pc \in {"call", "loaded", "exited"}
        /\ (pc = "exited") => BuildFailed

\* C13 as amended: the run ends with status 1 before any request is sent when the
\* fixture cannot be parsed, when a row lacks line, or when a row lacks op_type and
\* op_overlap is False or 0; a row that lacks only op_type is accepted when a
\* non-zero override is supplied, and its RowOp carries the override.
C13_FatalUnlessOverrideCoversOpType ==
    IsJson =>
        LET fatal == \/ json_error
                     \/ LacksKey(input_file, "line")
                     \/ (LacksKey(input_file, "op_type") /\ op_overlap.v = 0)
        IN  /\ (fatal /\ pc # "call") =>
                /\ NothingSent
                /\ pc \in {"loaded", "exited"}
                /\ (pc = "exited") => BuildFailed
            /\ (~fatal /\ pc \notin {"call", "loaded"}) =>
                /\ Len(request_list) = 3 * Len(input_file) + 1
                /\ LacksKey(input_file, "op_type") =>
                    \A i \in WritePositions :
                        \A r \in 1..Len(request_list[i].row_ops) :
                            request_list[i].row_ops[r].op_type = op_overlap.v

\* C13 witness: a row without line ended the run although an override was given.
C13_Witness ==
    /\ IsJson
    /\ LacksKey(input_file, "line")
    /\ op_overlap = PyInt(1)
    /\ BuildFailed
    /\ stdout = <<Traceback("KeyError")>>

(***************************************************************************)
(* Validation of the jdbc store (SpecJdbc).                                *)
(***************************************************************************)
Validated == queries > 0
Passed == exit_code # <<1>>
LastReport == stdout[Len(stdout)]

\* The k-th row of a fixture, counting through its batches in file order
RECURSIVE RowAt(_, _)
RowAt(f, k) ==
    IF k <= Len(Head(f)) THEN Head(f)[k] ELSE RowAt(Tail(f), k - Len(Head(f)))

\* The (id, name) tuples of the fixture's rows, in fixture order
ReferenceRows(f) ==
    [k \in 1..TotalRows(f) |-> <<RowAt(f, k).line.id, RowAt(f, k).line.name>>]

\* C11: when the store returns a number of rows other than the number of rows
\* of the JSON fixture, validation exits with status 1, its report names the
\* expected and the actual count, and no cell has been compared.
C11_RowCountMismatchIsFatal ==
    (Validated /\ Len(rows) # TotalRows(input_file)) =>
        /\ pc = "exited"
        /\ exit_code = <<1>>
        /\ LastReport = RowCountReport(TotalRows(input_file), Len(rows))
        /\ compared = <<>>

C11_Witness ==
    /\ Validated
    /\ TotalRows(input_file) = 3
    /\ Len(rows) = 2
    /\ pc = "exited"

\* C12: validation returns without exiting exactly when the store's rows are,
\* position by position, the (id, name) tuples of the fixture's rows in fixture
\* order; the fixture with the one row (1, "a") passes against the store
\* holding exactly (1, "a").
C12_PassesIffRowsEqualInOrder ==
    Validated => (Passed <=> rows = ReferenceRows(input_file))

C12_Witness ==
    /\ Validated
    /\ Passed
    /\ ReferenceRows(input_file) = << <<1, "a">> >>
    /\ rows = << <<1, "a">> >>


\* The session of the current scenario has run to its end without an error
SessionCompleted ==
    /\ raised = "none"
    /\ request_list # <<>>
    /\ Len(wire) = Len(request_list)
    /\ pulls = Len(request_list)
    /\ consumed = Len(request_list)
    /\ completed = started

\* C15: in the jdbc scenario the store is read only once every response of the
\* session has been consumed without error; when the stream driver aborted,
\* the store is never read and validation never runs.
C15_StoreReadOnlyAfterSession ==
    /\ Validated => (scenario = "jdbc_sink" /\ SessionCompleted)
    /\ pc = "validate" => SessionCompleted
    /\ raised # "none" =>
          (queries = 0 /\ rows = <<>> /\ compared = <<>> /\ pc = "exited")

C15_Witness ==
    /\ Validated
    /\ SessionCompleted
    /\ Len(request_list) = 7
    /\ rows # <<>>

\* C16: the expected rows of the jdbc validation are a function of the JSON
\* fixture alone; a run sending JSON and a run sending any binary fixture as a
\* STREAM_CHUNK validate against the same sequence.
C16_ExpectedFromJsonFixtureOnly ==
    Validated => expected = ReferenceRows(input_file)

C16_Witness ==
    /\ Validated
    /\ ~use_json
    /\ request_list[3].payload = {"stream_chunk_payload"}
    /\ input_binary_file = <<13, 10>>
    /\ Len(expected) = 2


\* Rows of the store that differ from the expected row at the same index
RowDiffers(i) ==
    LET ref == ReferenceRows(input_file)
    IN  \/ Len(rows[i]) # Len(ref[i])
        \/ \E j \in 1..Len(rows[i]) : rows[i][j] # ref[i][j]

Least(S) == CHOOSE x \in S : \A y \in S : x <= y

\* The cells (zero-based) of rows 1..i-1 and of columns 1..j of row i
CellsUpTo(i, j) ==
    UNION { { <<r - 1, c - 1>> : c \in 1..Len(rows[r]) } : r \in 1..(i - 1) }
    \cup { <<i - 1, c - 1>> : c \in 1..j }

\* rep is the value-mismatch report for cell (i, j): the cell is compared first,
\* values of different columns are of different types
ReportsCell(rep, e, i, j, g) ==
    /\ DOMAIN rep = DOMAIN ValueReport(e, i, j, g)
    /\ rep.tag = ValueReport(e, i, j, g).tag
    /\ rep.row = i
    /\ rep.column = j
    /\ rep.expected = e
    /\ rep.got = g

InWalkOrder(log) ==
    \A a, b \in 1..Len(log) :
        a < b => \/ log[a][1] < log[b][1]
                 \/ log[a][1] = log[b][1] /\ log[a][2] < log[b][2]

CellsOf(log) == { log[k] : k \in 1..Len(log) }

\* C17: with equal row counts the cells are compared row by row and, within a
\* row, column by column; validation exits with status 1 at the first row whose
\* column count differs (reporting the two counts) or at the first cell whose
\* value differs (reporting its row and column index, the expected and the
\* actual value), and no cell after that one has been compared.
C17_StopsAtFirstMismatch ==
    (Validated /\ Len(rows) = TotalRows(input_file)) =>
        LET ref == ReferenceRows(input_file)
            bad == { i \in 1..Len(rows) : RowDiffers(i) }
        IN  /\ InWalkOrder(compared)
            /\ IF bad = {}
               THEN /\ Passed
                    /\ CellsOf(compared) = CellsUpTo(Len(rows) + 1, 0)
               ELSE LET i == Least(bad)
                    IN  /\ pc = "exited"
                        /\ exit_code = <<1>>
                        /\ IF Len(rows[i]) # Len(ref[i])
                           THEN /\ LastReport =
                                     ColumnCountReport(Len(ref[i]), Len(rows[i]))
                                /\ CellsOf(compared) = CellsUpTo(i, 0)
                           ELSE LET j == Least({ c \in 1..Len(rows[i]) :
                                                    rows[i][c] # ref[i][c] })
                                IN  /\ ReportsCell(LastReport, ref[i][j], i - 1, j - 1,
                                                    rows[i][j])
                                    /\ CellsOf(compared) = CellsUpTo(i, j)

\* The first row differs in both columns and a second row follows.
C17_Witness ==
    /\ Validated
    /\ ReferenceRows(input_file) = << <<1, "a">>, <<2, "b">> >>
    /\ rows = << <<2, "b">>, <<2, "b">> >>
    /\ pc = "exited"
    /\ compared = << <<0, 0>> >>


(***************************************************************************)
(* Several scenarios in one process (SpecMain).                            *)
(***************************************************************************)
HasSession == request_list # <<>>

\* The session starts with Start and, if it has a batch, with epoch 0 and
\* batch_id 1
FreshSession ==
    /\ request_list[1].kind = "start"
    /\ \A i \in 2..Len(request_list) : request_list[i].kind # "start"
    /\ Len(request_list) >= 4 =>
          /\ request_list[2] = StartEpoch(0)
          /\ request_list[3].kind = "write"
          /\ request_list[3].batch_id = 1
          /\ request_list[3].epoch = 0
          /\ request_list[4] = SyncBatch(0)

\* C18: every scenario of a run builds a session of its own, which starts with
\* Start, epoch 0 and batch_id 1 whatever the sessions before it used; at most
\* one session is open at a time, a scenario starts only when every scenario
\* before it has completed without a failure, and nothing starts after one.
C18_SessionsFreshAndSequential ==
    /\ [](HasSession => FreshSession)
    /\ [](channels <= 1 /\ started - completed \in {0, 1})
    /\ [](channels = 1 => (completed = started - 1 /\ exit_code # <<0>>))
    /\ [][started' # started =>
            /\ completed = started
            /\ channels = 0
            /\ exit_code = <<>>
            /\ raised = "none"
            /\ ~HasSession'
            /\ wire' = <<>>
            /\ consumed' = 0]_vars
    /\ [][exit_code # <<>> => (started' = started /\ request_list' = request_list
                                /\ channels' = channels)]_vars

\* A second JSON session is built after a first one of two epochs.
C18_Witness ==
    /\ started = 2
    /\ completed = 1
    /\ func = "test_sink_json"
    /\ Len(input_file) = 2
    /\ pc = "built"
    /\ Len(request_list) = 7


(***************************************************************************)
(* The CI failure notifier (SpecNotify).                                   *)
(***************************************************************************)
\* The failed-test map has been computed
Computed == pc \in {"polled", "end"}

ReadsAsFailure(text) ==
    \E k \in 1..Len(text) : text[k] \in {"hard_failed", "soft_failed"}

\* The status reported for test t is hard_failed or soft_failed
ReportedFailed(t) ==
    IF func = "main"
    THEN t \in DOMAIN outcome /\ ReadsAsFailure(outcome[t])
    ELSE t \in DOMAIN mock_test_map /\ ReadsAsFailure(mock_test_map[t])

FailedKeys == { failed_test_map[k].test : k \in 1..Len(failed_test_map) }

\* C21: the failed-test map holds exactly the tests of the selected pipeline's
\* test map whose reported status is hard_failed or soft_failed, each with its
\* owners; main uploads a notification if and only if that map is not empty,
\* and nothing is sent when every test has another status.
C21_FailedMapExactAndNotifiedIffNonEmpty ==
    /\ Computed =>
          /\ test_map = PipelineMap(pipeline_name)
          /\ FailedKeys = { t \in Keys(test_map) : ReportedFailed(t) }
          /\ Len(failed_test_map) = Cardinality(FailedKeys)
          /\ \A k \in 1..Len(failed_test_map) :
                \E i \in 1..Len(test_map) : failed_test_map[k] = test_map[i]
    /\ (func = "main" /\ pc = "end") => (uploads # <<>> <=> failed_test_map # <<>>)
    /\ uploads # <<>> =>
          /\ func = "main"
          /\ pc = "end"
          /\ Len(uploads) = 1
          /\ uploads[1].message = message
          /\ message # EmptyStr
    /\ (func = "main" /\ \A t \in DOMAIN outcome : ~ReadsAsFailure(outcome[t])) =>
          uploads = <<>>

\* One hard and one soft failure among passed steps, and the upload is made.
C21_Witness ==
    /\ func = "main"
    /\ pipeline_name = <<"main-cron">>
    /\ pc = "end"
    /\ DOMAIN outcome = {"fuzz-test", "e2e-test-release"}
    /\ outcome["fuzz-test"] = <<"hard_failed", "\r", "\n">>
    /\ outcome["e2e-test-release"] = <<"soft_failed">>
    /\ failed_test_map = << T("fuzz-test", <<"noelkwan">>), T("e2e-test-release", <<"zhi">>) >>
    /\ Len(uploads) = 1

====
